---- MODULE Spec2Model ----
(***************************************************************************)
(* Model of src/lcus_submission.py: LeetCodeScraper.run, login,            *)
(* fetch_submissions and _process_submission.                              *)
(*                                                                         *)
(* The main thread walks run() -> login() -> fetch_submissions(); every    *)
(* record of a fetched batch is a task of the ThreadPoolExecutor, and a    *)
(* task advances one shared-state access at a time (existence check,       *)
(* detail write, membership check, set add, accepted write), so that the   *)
(* threads of one batch interleave as CPython threads do.                  *)
(***************************************************************************)
EXTENDS Integers, Sequences, FiniteSets, TLC

\* ------------------------------------------------------------------------
\* Program constants
\* ------------------------------------------------------------------------
BATCH_SIZE == 20
MAX_WORKERS == 4
MAX_RETRIES == 3

\* ------------------------------------------------------------------------
\* Bounds of the model
\* ------------------------------------------------------------------------
\* non-empty batches the feed serves
MaxPages == 2
\* failed fetches per run (the code retries without limit)
MaxFetchFailures == 2
\* failed file operations per run
MaxIOFailures == 1
\* executions of the program over the same directories
MaxRuns == 2

\* ------------------------------------------------------------------------
\* Inputs: submission records as the feed returns them (JSON objects)
\* ------------------------------------------------------------------------
Fields == {"title_slug", "lang", "timestamp", "status_display", "code"}

RA1 == [title_slug |-> "two-sum", lang |-> "python3", timestamp |-> 200,
        status_display |-> "Accepted", code |-> "codeA"]
RA2 == [title_slug |-> "two-sum", lang |-> "cpp", timestamp |-> 100,
        status_display |-> "Accepted", code |-> "codeB"]
RA3 == [title_slug |-> "two-sum", lang |-> "python", timestamp |-> 150,
        status_display |-> "Accepted", code |-> "codeC"]
RW == [title_slug |-> "two-sum", lang |-> "python3", timestamp |-> 300,
       status_display |-> "Wrong Answer", code |-> "codeW"]
RB == [title_slug |-> "add-two-numbers", lang |-> "foobar", timestamp |-> 250,
       status_display |-> "Accepted", code |-> "codeD"]
\* a record without its 'title_slug' key
RM == [lang |-> "cpp", timestamp |-> 120,
       status_display |-> "Accepted", code |-> "codeM"]

\* the batches a feed is made of
Pages == { <<RA1, RA2>>, <<RA1, RA3>>, <<RW, RA1>>, <<RM, RB>>, <<RA1, RA1>> }

RECURSIVE SeqsUpTo(_, _)
SeqsUpTo(S, n) ==
    IF n = 0 THEN { <<>> }
    ELSE LET shorter == SeqsUpTo(S, n - 1)
         IN  shorter \cup { Append(s, x) : s \in shorter, x \in S }

Feeds == SeqsUpTo(Pages, MaxPages)

Slugs == {"two-sum", "add-two-numbers"}

\* ------------------------------------------------------------------------
\* State
\* ------------------------------------------------------------------------
VARIABLES
    feed,             \* the upstream feed: page k answers offset (k-1)*BATCH_SIZE
    run,              \* which execution of the program this is
    pc,               \* position of the main thread
    attempt,          \* login(): loop variable
    driver,           \* self.driver: "None" or "Chrome"
    live,             \* browser sessions created and not yet quit
    screenshot,       \* save_screenshot was called on a session
    exc,              \* exception propagating out of run(), or "none"
    offset,           \* fetch_submissions(): offset
    task,             \* position of every dispatched _process_submission call
    accepted_slugs,   \* self.accepted_slugs
    details,          \* existing files <base-dir>/<slug>/<timestamp>.json
    accepted,         \* existing files <accepted-dir>/<slug>.<ext> and content
    fetches,          \* number of fetches issued in this run
    lastFetch,        \* offset and outcome of the latest fetch of this run
    fetchFailures,    \* failed fetches of this run
    ioFailures,       \* failed file operations of this run
    prevRun           \* how the previous execution ended

vars == <<feed, run, pc, attempt, driver, live, screenshot, exc, offset, task,
          accepted_slugs, details, accepted, fetches, lastFetch,
          fetchFailures, ioFailures, prevRun>>


\* ------------------------------------------------------------------------
\* Helpers
\* ------------------------------------------------------------------------
\* LANG_EXTENSIONS
LangTable ==
    [l \in {"cpp", "java", "python", "python3", "c", "csharp", "javascript",
            "ruby", "swift", "golang", "scala", "kotlin", "rust", "mysql",
            "bash"} |->
        CASE l = "cpp" -> "cpp"
          [] l = "java" -> "java"
          [] l = "python" -> "py"
          [] l = "python3" -> "py"
          [] l = "c" -> "c"
          [] l = "csharp" -> "cs"
          [] l = "javascript" -> "js"
          [] l = "ruby" -> "rb"
          [] l = "swift" -> "swift"
          [] l = "golang" -> "go"
          [] l = "scala" -> "scala"
          [] l = "kotlin" -> "kt"
          [] l = "rust" -> "rs"
          [] l = "mysql" -> "sql"
          [] l = "bash" -> "sh"]

\* the language identifier used as it is, without the table
ExtensionRaw(lang) == lang

\* LANG_EXTENSIONS.get(sub.lang, sub.lang)
Extension(lang) == IF lang \in DOMAIN LangTable THEN LangTable[lang] ELSE lang

\* accepted_dir / f'{title_slug}.{extension}'
AcceptedPath(r) == <<r.title_slug, Extension(r.lang)>>

\* base_dir / title_slug / f'{timestamp}.json'
JsonPath(r) == <<r.title_slug, r.timestamp>>

\* the batch the feed answers at an offset: 'submissions_dump'
PageAt(o) ==
    IF o \div BATCH_SIZE + 1 <= Len(feed) THEN feed[o \div BATCH_SIZE + 1]
    ELSE <<>>

\* the record a dispatched task processes
Rec(p) == PageAt(p.off)[p.i]

\* task positions
Terminal == {"error", "skipped", "detail_failed", "detail_partial", "stored",
             "exported", "export_failed", "raised"}
Running == {"write_json", "check", "add", "write_accepted"}

Before(q, p) == q.off < p.off \/ (q.off = p.off /\ q.i < p.i)

Truncated == "<truncated>"

NoFetch == [offset |-> -1, result |-> "none"]

\* ------------------------------------------------------------------------
\* Exception handling
\* ------------------------------------------------------------------------
\* a narrower clause, as a handler that names one exception class would be
ExceptOSErrorOnly(e) == e = "OSError"

\* 'except Exception': every exception class the model raises derives from it
ExceptException(e) == e \in {"KeyError", "OSError", "JSONDecodeError", "WebDriverException"}

\* _process_submission: where a call that raised e ends. Caught, the call
\* returns normally in state `label`; otherwise the exception leaves the call
\* and is stored in the task's (never read) future.
ProcessExcept(e, label) == IF ExceptException(e) THEN label ELSE "raised"

\* ------------------------------------------------------------------------
\* Initial state: the scraper object is constructed, run() is about to start
\* ------------------------------------------------------------------------
Init ==
    /\ feed \in Feeds
    /\ run = 1
    /\ pc = "login"
    /\ attempt = 0
    /\ driver = "None"
    /\ live = 0
    /\ screenshot = FALSE
    /\ exc = "none"
    /\ offset = 0
    /\ task = <<>>
    /\ accepted_slugs = {}
    /\ details = {}
    /\ accepted = <<>>
    /\ fetches = 0
    /\ lastFetch = NoFetch
    /\ fetchFailures = 0
    /\ ioFailures = 0
    /\ prevRun = [completed |-> FALSE, lostDetail |-> FALSE,
                  exportFailed |-> FALSE]

\* ------------------------------------------------------------------------
\* login()
\* ------------------------------------------------------------------------
\* the retry path dropping the reference without quitting the browser
LiveAfterRetryNoQuit(d, l) == l

\* 'if self.driver: self.driver.quit()' on the retry path
LiveAfterRetryQuit(d, l) == IF d # "None" THEN l - 1 ELSE l

\* One pass of the try body. out: "ok" (the URL changed), "setup_fail"
\* (_setup_driver raised), "page_fail" (a page operation or wait raised).
LoginTry(out) ==
    /\ pc = "login"
    /\ out = "setup_fail" => driver = "None"
    /\ driver' = IF driver = "None" /\ out = "setup_fail" THEN "None" ELSE "Chrome"
    /\ live' = IF driver = "None" /\ out # "setup_fail" THEN live + 1 ELSE live
    /\ pc' = IF out = "ok" THEN "fetch" ELSE "login_except"
    /\ attempt' = IF out = "ok" THEN 0 ELSE attempt
    /\ UNCHANGED <<feed, run, screenshot, exc, offset, task, accepted_slugs,
                   details, accepted, fetches, lastFetch, fetchFailures, ioFailures,
                   prevRun>>

\* The except clause of the login loop.
LoginExcept ==
    /\ pc = "login_except"
    /\ IF attempt = MAX_RETRIES - 1
       THEN \* self.driver.save_screenshot(...); raise
            /\ screenshot' = (driver # "None")
            /\ exc' = IF driver # "None" THEN "WebDriverException"
                      ELSE "AttributeError"
            /\ pc' = "finally"
            /\ UNCHANGED <<attempt, driver, live>>
       ELSE \* sleep, quit the driver, next attempt
            /\ live' = LiveAfterRetryQuit(driver, live)
            /\ driver' = "None"
            /\ attempt' = attempt + 1
            /\ pc' = "login"
            /\ UNCHANGED <<screenshot, exc>>
    /\ UNCHANGED <<feed, run, offset, task, accepted_slugs, details, accepted,
                   fetches, lastFetch, fetchFailures, ioFailures, prevRun>>

\* ------------------------------------------------------------------------
\* run(): the finally clause
\* ------------------------------------------------------------------------
\* a finally clause that forgets the browser
LiveAfterNoFinally(d, l) == l

\* 'if self.driver: self.driver.quit()'
LiveAfterFinally(d, l) == IF d # "None" THEN l - 1 ELSE l

RunFinally ==
    /\ pc = "finally"
    /\ live' = LiveAfterFinally(driver, live)
    /\ pc' = IF exc = "none" THEN "done" ELSE "failed"
    /\ UNCHANGED <<feed, run, attempt, driver, screenshot, exc, offset, task,
                   accepted_slugs, details, accepted, fetches, lastFetch, fetchFailures,
                   ioFailures, prevRun>>

\* ------------------------------------------------------------------------
\* fetch_submissions()
\* ------------------------------------------------------------------------
\* an except clause that moves on to the next page
OffsetSkipFailed(o) == o + BATCH_SIZE

\* the except clauses leave offset alone
OffsetAfterFailure(o) == o

\* a loop that stops at the first page shorter than the limit
ShortPageEnds(subs) == Len(subs) < BATCH_SIZE

\* 'if not submissions: break'
NoMoreSubmissions(subs) == subs = <<>>

\* an advance by two pages
OffsetDoubleStep(o) == o + 2 * BATCH_SIZE

\* 'offset += BATCH_SIZE'
OffsetAfterBatch(o) == o + BATCH_SIZE

\* leaving the pool without waiting for its threads
ExecutorNoWait == TRUE

\* leaving 'with ThreadPoolExecutor(...)': shutdown(wait=True)
ExecutorShutdownWait == \A p \in DOMAIN task : task[p] \in Terminal

\* One pass of the loop body up to the dispatch. out: "ok" (the body parsed),
\* "JSONDecodeError", "WebDriverException" (driver.get or find_element raised).
Fetch(out) ==
    /\ pc = "fetch"
    /\ fetches' = fetches + 1
    /\ IF out = "ok"
       THEN LET subs == PageAt(offset)
            IN  IF NoMoreSubmissions(subs)
                THEN /\ lastFetch' = [offset |-> offset, result |-> "empty"]
                     /\ pc' = "finally"
                     /\ UNCHANGED <<task, offset, fetchFailures>>
                ELSE /\ lastFetch' = [offset |-> offset, result |-> "batch"]
                     /\ task' = [p \in {[off |-> offset, i |-> i] :
                                            i \in 1..Len(subs)} |-> "queued"]
                                @@ task
                     /\ pc' = "pool"
                     /\ UNCHANGED <<offset, fetchFailures>>
       ELSE /\ fetchFailures < MaxFetchFailures
            /\ ExceptException(out)
            /\ lastFetch' = [offset |-> offset, result |-> out]
            /\ fetchFailures' = fetchFailures + 1
            /\ offset' = OffsetAfterFailure(offset)
            /\ UNCHANGED <<pc, task>>
    /\ UNCHANGED <<feed, run, attempt, driver, live, screenshot, exc,
                   accepted_slugs, details, accepted, ioFailures, prevRun>>

\* End of the with block and 'offset += BATCH_SIZE'.
PoolJoin ==
    /\ pc = "pool"
    /\ ExecutorShutdownWait
    /\ offset' = OffsetAfterBatch(offset)
    /\ pc' = "fetch"
    /\ UNCHANGED <<feed, run, attempt, driver, live, screenshot, exc, task,
                   accepted_slugs, details, accepted, fetches, lastFetch, fetchFailures,
                   ioFailures, prevRun>>

\* ------------------------------------------------------------------------
\* _process_submission(), one call per dispatched record
\* ------------------------------------------------------------------------
\* an existence check that never finds the file
JsonNeverExists(r) == FALSE

\* json_path.exists()
JsonExists(r) == JsonPath(r) \in details

\* Submission(...) reads the five keys
HasFields(r) == Fields \subseteq DOMAIN r

mainVars == <<feed, run, pc, attempt, driver, live, screenshot, exc, offset,
              fetches, lastFetch, fetchFailures, prevRun>>

\* A pool thread takes the next queued record (the queue is FIFO, at most
\* MAX_WORKERS threads), builds the Submission and checks the detail file.
ProcessBegin(p) ==
    /\ p \in DOMAIN task
    /\ task[p] = "queued"
    /\ \A q \in DOMAIN task : Before(q, p) => task[q] # "queued"
    /\ Cardinality({q \in DOMAIN task : task[q] \in Running}) < MAX_WORKERS
    /\ LET r == Rec(p)
       IN  task' = [task EXCEPT ![p] =
                IF ~HasFields(r) THEN ProcessExcept("KeyError", "error")
                ELSE IF JsonExists(r) THEN "skipped"
                ELSE "write_json"]
    /\ UNCHANGED mainVars
    /\ UNCHANGED <<accepted_slugs, details, accepted, ioFailures>>

\* folder_path.mkdir, json_path.open('w'), json.dump. io: "ok", "nofile"
\* (mkdir or open raised), "partial" (the file was created, the dump raised).
ProcessWriteJson(p, io) ==
    /\ p \in DOMAIN task
    /\ task[p] = "write_json"
    /\ io # "ok" => ioFailures < MaxIOFailures
    /\ LET r == Rec(p)
       IN  /\ details' = IF io = "nofile" THEN details
                         ELSE details \cup {JsonPath(r)}
           /\ task' = [task EXCEPT ![p] =
                CASE io = "ok" -> "check"
                  [] io = "nofile" -> ProcessExcept("OSError", "detail_failed")
                  [] io = "partial" -> ProcessExcept("OSError", "detail_partial")]
    /\ ioFailures' = IF io = "ok" THEN ioFailures ELSE ioFailures + 1
    /\ UNCHANGED mainVars
    /\ UNCHANGED <<accepted_slugs, accepted>>

\* a membership test that never finds the slug
AlwaysNotInAcceptedSlugs(s) == TRUE

\* 'sub.title_slug not in self.accepted_slugs'
NotInAcceptedSlugs(s) == s \notin accepted_slugs

\* 'if sub.status == "Accepted" and sub.title_slug not in self.accepted_slugs'
ProcessCheck(p) ==
    /\ p \in DOMAIN task
    /\ task[p] = "check"
    /\ LET r == Rec(p)
       IN  task' = [task EXCEPT ![p] =
                IF r.status_display = "Accepted"
                   /\ NotInAcceptedSlugs(r.title_slug)
                THEN "add" ELSE "stored"]
    /\ UNCHANGED mainVars
    /\ UNCHANGED <<accepted_slugs, details, accepted, ioFailures>>

\* self.accepted_slugs.add(sub.title_slug)
ProcessAdd(p) ==
    /\ p \in DOMAIN task
    /\ task[p] = "add"
    /\ accepted_slugs' = accepted_slugs \cup {Rec(p).title_slug}
    /\ task' = [task EXCEPT ![p] = "write_accepted"]
    /\ UNCHANGED mainVars
    /\ UNCHANGED <<details, accepted, ioFailures>>

\* accepted_path.open('w'), f.write(sub.code). io as for the detail write;
\* open('w') truncates, so "partial" leaves a truncated file.
ProcessWriteAccepted(p, io) ==
    /\ p \in DOMAIN task
    /\ task[p] = "write_accepted"
    /\ io # "ok" => ioFailures < MaxIOFailures
    /\ LET r == Rec(p)
       IN  /\ accepted' =
                CASE io = "ok" -> (AcceptedPath(r) :> r.code) @@ accepted
                  [] io = "nofile" -> accepted
                  [] io = "partial" -> (AcceptedPath(r) :> Truncated) @@ accepted
           /\ task' = [task EXCEPT ![p] =
                IF io = "ok" THEN "exported"
                ELSE ProcessExcept("OSError", "export_failed")]
    /\ ioFailures' = IF io = "ok" THEN ioFailures ELSE ioFailures + 1
    /\ UNCHANGED mainVars
    /\ UNCHANGED <<accepted_slugs, details>>

\* ------------------------------------------------------------------------
\* The program is started again over the same directories and feed
\* ------------------------------------------------------------------------
Main ==
    /\ pc \in {"done", "failed"}
    /\ run < MaxRuns
    /\ run' = run + 1
    /\ prevRun' = [completed |-> pc = "done",
                   lostDetail |-> \E p \in DOMAIN task : task[p] = "detail_failed",
                   exportFailed |-> \E p \in DOMAIN task : task[p] = "export_failed"]
    /\ pc' = "login"
    /\ attempt' = 0
    /\ driver' = "None"
    /\ screenshot' = FALSE
    /\ exc' = "none"
    /\ offset' = 0
    /\ task' = <<>>
    /\ accepted_slugs' = {}
    /\ fetches' = 0
    /\ lastFetch' = NoFetch
    /\ fetchFailures' = 0
    /\ ioFailures' = 0
    /\ UNCHANGED <<feed, live, details, accepted>>

\* the steps of one execution of the program
RunStep ==
    \/ \E out \in {"ok", "setup_fail", "page_fail"} : LoginTry(out)
    \/ LoginExcept
    \/ RunFinally
    \/ \E out \in {"ok", "JSONDecodeError", "WebDriverException"} : Fetch(out)
    \/ PoolJoin
    \/ \E p \in DOMAIN task : ProcessBegin(p)
    \/ \E p \in DOMAIN task, io \in {"ok", "nofile", "partial"} : ProcessWriteJson(p, io)
    \/ \E p \in DOMAIN task : ProcessCheck(p)
    \/ \E p \in DOMAIN task : ProcessAdd(p)
    \/ \E p \in DOMAIN task, io \in {"ok", "nofile", "partial"} : ProcessWriteAccepted(p, io)

Next ==
    \/ RunStep
    \/ Main

Spec == Init /\ [][Next]_vars

\* One execution in which the main thread and the pool threads keep running:
\* a sleep ends, a thread that can step does. The feed stops failing after
\* MaxFetchFailures failed fetches.
FairSpec == Init /\ [][RunStep]_vars /\ WF_vars(RunStep)

\* ------------------------------------------------------------------------
\* Quantities the claims speak about
\* ------------------------------------------------------------------------
\* the dispatched tasks of well-formed records of one problem
TasksOf(s) == {p \in DOMAIN task : HasFields(Rec(p)) /\ Rec(p).title_slug = s}

\* accepted-file writes completed in this run for a problem
AcceptedWrites(s) == Cardinality({p \in TasksOf(s) : task[p] = "exported"})

\* calls of accepted_slugs.add made in this run for a problem
AddCalls(s) ==
    Cardinality({p \in TasksOf(s) :
                    task[p] \in {"write_accepted", "exported", "export_failed"}})

\* tasks of this run that created their detail file
DetailWrites ==
    {p \in DOMAIN task :
        task[p] \in {"check", "add", "write_accepted", "stored", "exported",
                     "export_failed", "detail_partial"}}

\* accepted files on disk for a problem
AcceptedFiles(s) == {path \in DOMAIN accepted : path[1] = s}

\* Accepted records of a problem that the existence check did not skip
AcceptedCandidates(s) ==
    {p \in TasksOf(s) : Rec(p).status_display = "Accepted" /\ task[p] # "skipped"}

\* the first of them in feed order
FirstAccepted(s) ==
    CHOOSE p \in AcceptedCandidates(s) :
        \A q \in AcceptedCandidates(s) : q = p \/ Before(p, q)

\* no two records of the feed share their (title_slug, timestamp)
DistinctTimestamps ==
    \A k1, k2 \in 1..Len(feed) :
        \A i1 \in 1..Len(feed[k1]), i2 \in 1..Len(feed[k2]) :
            (HasFields(feed[k1][i1]) /\ HasFields(feed[k2][i2])
             /\ JsonPath(feed[k1][i1]) = JsonPath(feed[k2][i2]))
                => (k1 = k2 /\ i1 = i2)

\* the offset at which the feed answers with an empty batch
K == Len(feed) * BATCH_SIZE

Ceil(a, b) == (a + b - 1) \div b

FetchErrors == {"JSONDecodeError", "WebDriverException"}

\* the positions of the records the feed serves below an offset
PositionsBelow(o) ==
    UNION { {[off |-> (k - 1) * BATCH_SIZE, i |-> i] : i \in 1..Len(feed[k])} :
            k \in {j \in 1..Len(feed) : (j - 1) * BATCH_SIZE < o} }

\* ------------------------------------------------------------------------
\* C1 (as claimed): in a run, every problem identifier gets at most one
\* accepted-file write and at most one accepted_slugs.add, under every
\* interleaving of the workers of a batch. The code has no lock around the
\* membership check and the add, so two workers can both pass the check.
\* Stated for feeds whose records differ in their timestamps.
\* ------------------------------------------------------------------------
C1_OneExportPerSlug ==
    DistinctTimestamps =>
        \A s \in Slugs : AcceptedWrites(s) <= 1 /\ AddCalls(s) <= 1

C3_CeilFetches ==
    (pc = "done" /\ fetchFailures = 0) => fetches = Ceil(K, BATCH_SIZE)

\* C3 (amended): with no fetch error, the loop ends with the fetch at offset
\* K, after exactly K / batch-size + 1 fetches (the one that returns the
\* empty batch included).
C3_FetchCount ==
    (lastFetch.result = "empty" /\ fetchFailures = 0) =>
        /\ lastFetch.offset = K
        /\ fetches = K \div BATCH_SIZE + 1
        /\ pc \in {"finally", "done"}

C3_Witness ==
    pc = "done" /\ fetchFailures = 0 /\ Len(feed) = 2 /\ fetches = 3

\* ------------------------------------------------------------------------
\* C4: after a failed fetch at offset O the loop is back at its top with the
\* offset still O, so the next fetch is at O again, and no record of offset O
\* has been dispatched.
\* ------------------------------------------------------------------------
C4_SameOffsetRetry ==
    lastFetch.result \in FetchErrors =>
        /\ pc = "fetch"
        /\ offset = lastFetch.offset
        /\ \A p \in DOMAIN task : p.off # lastFetch.offset

C4_Witness ==
    /\ lastFetch = [offset |-> BATCH_SIZE, result |-> "JSONDecodeError"]
    /\ fetchFailures = 2
    /\ fetches = 3

\* ------------------------------------------------------------------------
\* C5 (as claimed): the accepted directory never holds two accepted files of
\* one problem identifier.
\* ------------------------------------------------------------------------
C5_OneFilePerSlug ==
    \A s \in Slugs : Cardinality(AcceptedFiles(s)) <= 1

\* ------------------------------------------------------------------------
\* C6 (as claimed): when a run ends, every accepted file of a problem holds
\* the code of the first record, in feed order, that is Accepted for the
\* problem and was not skipped. Stated for a first run without file errors.
\* ------------------------------------------------------------------------
C6_FirstInFeedOrderWins ==
    (pc = "done" /\ run = 1 /\ ioFailures = 0) =>
        \A s \in Slugs :
            AcceptedCandidates(s) # {} =>
                /\ AcceptedFiles(s) # {}
                /\ \A path \in AcceptedFiles(s) :
                       accepted[path] = Rec(FirstAccepted(s)).code

\* ------------------------------------------------------------------------
\* C7: a record is in a worker's hands (dispatched and not finished) only
\* while the main thread waits in the pool of the batch that was fetched
\* last, at the current offset; so no two batches overlap and no fetch is
\* issued while a worker is active.
\* ------------------------------------------------------------------------
C7_BatchBarrier ==
    \A p \in DOMAIN task :
        task[p] \notin Terminal =>
            /\ pc = "pool"
            /\ p.off = offset
            /\ lastFetch = [offset |-> offset, result |-> "batch"]

C7_Witness ==
    /\ offset = BATCH_SIZE
    /\ \E p, q \in DOMAIN task :
          /\ p # q /\ p.off = offset /\ q.off = offset
          /\ task[p] \in Running /\ task[q] \in Running

\* ------------------------------------------------------------------------
\* C8: an exception in one record's processing never leaves
\* _process_submission; the run fails only in login; once the main thread
\* is past a batch every record below the offset has been processed to an
\* end, and a run that ends has walked the whole feed.
\* ------------------------------------------------------------------------
C8_RecordErrorsContained ==
    /\ \A p \in DOMAIN task : task[p] # "raised"
    /\ pc = "failed" => task = <<>>
    /\ task # <<>> => exc = "none"
    /\ pc \in {"fetch", "finally", "done"} =>
          \A p \in PositionsBelow(offset) : p \in DOMAIN task /\ task[p] \in Terminal
    /\ pc = "done" => offset = K

C8_Witness ==
    /\ pc = "done"
    /\ \E p, q \in DOMAIN task :
          /\ p.off = q.off
          /\ task[p] = "error"
          /\ task[q] = "export_failed"
    /\ \E p \in DOMAIN task : p.off = BATCH_SIZE /\ task[p] = "exported"

\* ------------------------------------------------------------------------
\* C9: when run() has ended, normally or with an exception, no browser
\* session created during the run is still live.
\* ------------------------------------------------------------------------
C9_SessionReleased ==
    pc \in {"done", "failed"} => live = 0

C9_Witness ==
    pc = "failed" /\ driver = "Chrome" /\ screenshot /\ live = 0

\* ------------------------------------------------------------------------
\* C10 (as claimed): login fails the run only at its third failed attempt,
\* and then a screenshot has been taken, whatever made the attempts fail.
\* ------------------------------------------------------------------------
C10_ScreenshotOnExhaustion ==
    /\ attempt <= MAX_RETRIES - 1
    /\ pc = "failed" => (attempt = MAX_RETRIES - 1 /\ screenshot)

\* ------------------------------------------------------------------------
\* C11: the loop is left only by a fetch that answered with an empty list
\* (never by a failed fetch, never at a non-empty batch), it is left as soon
\* as such a fetch happens, and when the feed stops failing the loop is
\* left eventually.
\* ------------------------------------------------------------------------
LoopEnded == pc \in {"finally", "done"} /\ exc = "none"

C11_LoopTermination ==
    /\ [](LoopEnded => (lastFetch.result = "empty"
                        /\ PageAt(lastFetch.offset) = <<>>))
    /\ [](lastFetch.result = "empty" => LoopEnded)
    /\ [](lastFetch.result \in FetchErrors => pc = "fetch")
    /\ ((pc = "fetch") ~> LoopEnded)

C11_Witness ==
    /\ pc = "done"
    /\ fetchFailures = MaxFetchFailures
    /\ Len(feed) = 2
    /\ lastFetch = [offset |-> 2 * BATCH_SIZE, result |-> "empty"]

\* ------------------------------------------------------------------------
\* C12 (as claimed): within a run no detail path is written twice, also when
\* two records of one (title_slug, timestamp) are in the hands of two
\* workers. The existence check and the write are separate steps, so both
\* workers can find the file absent.
\* ------------------------------------------------------------------------
C12_DetailWrittenOnce ==
    \A p, q \in DetailWrites :
        p # q => JsonPath(Rec(p)) # JsonPath(Rec(q))

\* ------------------------------------------------------------------------
\* C13: a record whose detail file exists when it is processed ends as
\* skipped, whatever its status, and that step changes neither the detail
\* files, nor the accepted files, nor accepted_slugs; a skipped record does
\* nothing afterwards.
\* ------------------------------------------------------------------------
C13_SkipChangesNothing ==
    [][run' = run =>
        \A p \in DOMAIN task :
            /\ (/\ task[p] = "queued"
                /\ task'[p] # "queued"
                /\ HasFields(Rec(p))
                /\ JsonPath(Rec(p)) \in details)
               => (/\ task'[p] = "skipped"
                   /\ details' = details
                   /\ accepted' = accepted
                   /\ accepted_slugs' = accepted_slugs)
            /\ task[p] = "skipped" => task'[p] = "skipped"]_vars

\* an Accepted record is skipped while its problem has no accepted file
C13_Witness ==
    /\ pc = "done"
    /\ \E p \in DOMAIN task :
          /\ task[p] = "skipped"
          /\ Rec(p).status_display = "Accepted"
          /\ AcceptedFiles(Rec(p).title_slug) = {}
          /\ Rec(p).title_slug \notin accepted_slugs

\* ------------------------------------------------------------------------
\* C14: an accepted write creates or replaces exactly the file
\* <title_slug>.<ext> with the record's code, ext being the table's entry
\* for the record's language when there is one and the language identifier
\* itself otherwise: 'foobar' gives .foobar, python and python3 both give
\* .py and so the same path.
\* ------------------------------------------------------------------------
C14_ExtensionMapping ==
    [][\A p \in DOMAIN task :
          (task[p] = "write_accepted" /\ task'[p] = "exported") =>
              LET r == Rec(p)
                  ext == IF r.lang \in DOMAIN LangTable
                         THEN LangTable[r.lang] ELSE r.lang
                  path == <<r.title_slug, ext>>
              IN  /\ DOMAIN accepted' = DOMAIN accepted \cup {path}
                  /\ accepted'[path] = r.code
                  /\ r.lang = "foobar" => ext = "foobar"
                  /\ r.lang \in {"python", "python3"} => ext = "py"]_vars

\* a foobar export, and a python and a python3 export that share one file
C14_Witness ==
    /\ <<"add-two-numbers", "foobar">> \in DOMAIN accepted
    /\ \E p, q \in DOMAIN task :
          /\ task[p] = "exported" /\ Rec(p).lang = "python3"
          /\ task[q] = "exported" /\ Rec(q).lang = "python"
          /\ AcceptedFiles("two-sum") = {<<"two-sum", "py">>}

\* ------------------------------------------------------------------------
\* C15: in a run the offset starts at 0, stays a non-negative multiple of
\* the batch size and never passes the first empty page; a step changes it
\* only by adding the batch size, and only when the latest fetch was a
\* non-empty batch at the current offset whose records have all been
\* processed to an end; every fetch is issued at the current offset. So the
\* fetch at O + batch-size follows a successful non-empty fetch at O.
\* ------------------------------------------------------------------------
C15_OffsetDiscipline ==
    /\ [](/\ offset >= 0
          /\ offset % BATCH_SIZE = 0
          /\ offset <= K
          /\ fetches = 0 => offset = 0
          /\ PositionsBelow(offset) \subseteq DOMAIN task)
    /\ [][run' = run =>
            \/ offset' = offset
            \/ /\ offset' = offset + BATCH_SIZE
               /\ lastFetch = [offset |-> offset, result |-> "batch"]
               /\ PageAt(offset) # <<>>
               /\ \A i \in 1..Len(PageAt(offset)) :
                     task[[off |-> offset, i |-> i]] \in Terminal]_vars
    /\ [][fetches' = fetches + 1 => lastFetch'.offset = offset]_vars

C15_Witness ==
    /\ pc = "fetch"
    /\ offset = 2 * BATCH_SIZE
    /\ fetchFailures = 1
    /\ lastFetch = [offset |-> BATCH_SIZE, result |-> "batch"]

\* ------------------------------------------------------------------------
\* C16 (as claimed): after a run in which an accepted write failed once the
\* detail file was written, a later complete run without any error leaves
\* an accepted file for every problem that has an Accepted record in the
\* feed. Stated for feeds whose records differ in their timestamps.
\* ------------------------------------------------------------------------
HasAcceptedRecord(s) ==
    \E k \in 1..Len(feed) : \E i \in 1..Len(feed[k]) :
        /\ HasFields(feed[k][i])
        /\ feed[k][i].title_slug = s
        /\ feed[k][i].status_display = "Accepted"

C16_RerunRecoversExports ==
    (/\ DistinctTimestamps
     /\ run >= 2
     /\ prevRun.exportFailed
     /\ pc = "done"
     /\ ioFailures = 0
     /\ fetchFailures = 0)
        => \A s \in Slugs : HasAcceptedRecord(s) => AcceptedFiles(s) # {}

\* ------------------------------------------------------------------------
\* C17 (as claimed): whenever no worker is active, a problem identifier is
\* in accepted_slugs exactly if an accepted file was written for it in this
\* run. The code adds the identifier before it writes and keeps it when the
\* write fails.
\* ------------------------------------------------------------------------
C17_SetMatchesExports ==
    (\A p \in DOMAIN task : task[p] \in Terminal) =>
        \A s \in Slugs : (s \in accepted_slugs) <=> (AcceptedWrites(s) >= 1)

\* ------------------------------------------------------------------------
\* C18: accepted_slugs is empty when a run starts, whatever the accepted
\* directory holds, and within a run it only grows; a record that reaches
\* the accepted test with its slug in the set ends without an accepted
\* write; so all the records of a problem that pass the test in a run
\* belong to one batch, and no record of a later batch replaces the file.
\* ------------------------------------------------------------------------
PassedAcceptedTest == {"add", "write_accepted", "exported", "export_failed"}

C18_DedupSetRespected ==
    /\ [](pc = "login" => accepted_slugs = {})
    /\ [][run' = run => accepted_slugs \subseteq accepted_slugs']_vars
    /\ [][run' = run =>
            \A p \in DOMAIN task :
                (/\ task[p] = "check"
                 /\ task'[p] # "check"
                 /\ Rec(p).title_slug \in accepted_slugs)
                => (task'[p] = "stored" /\ accepted' = accepted)]_vars
    /\ [](\A p, q \in DOMAIN task :
            (/\ task[p] \in PassedAcceptedTest
             /\ task[q] \in PassedAcceptedTest
             /\ Rec(p).title_slug = Rec(q).title_slug)
            => p.off = q.off)

\* an Accepted record of a later batch is stored without an export, the
\* file of the earlier batch stays
C18_Witness ==
    \E p, q \in DOMAIN task :
        /\ p.off < q.off
        /\ task[p] = "exported"
        /\ task[q] = "stored"
        /\ Rec(q).status_display = "Accepted"
        /\ Rec(q).title_slug = Rec(p).title_slug
        /\ Rec(q).code # Rec(p).code
        /\ accepted[AcceptedPath(Rec(p))] = Rec(p).code

\* ------------------------------------------------------------------------
\* C19: the fetch loop is entered only by a login attempt that succeeded,
\* with its browser session live, and the first fetch is issued from
\* there; a failed attempt that is not the last leaves no session and no
\* driver behind before the next attempt; a session is created only when
\* none is live; at most one session is live in every state.
\* ------------------------------------------------------------------------
C19_LoginGatesFetching ==
    /\ [](live \in {0, 1})
    /\ [](pc \in {"fetch", "pool"} => (driver = "Chrome" /\ live = 1))
    /\ [][(pc # "fetch" /\ pc' = "fetch" /\ fetches' = 0)
            => (pc = "login" /\ driver' = "Chrome" /\ live' = 1)]_vars
    /\ [][(fetches = 0 /\ fetches' = 1)
            => (pc = "fetch" /\ driver = "Chrome" /\ live = 1)]_vars
    /\ [][(pc = "login_except" /\ pc' = "login")
            => (attempt < MAX_RETRIES - 1 /\ live' = 0 /\ driver' = "None")]_vars
    /\ [][live' > live => (pc = "login" /\ live = 0 /\ driver = "None")]_vars

\* the second attempt has failed with the session it created, after the
\* first attempt failed
C19_Witness ==
    /\ pc = "login_except"
    /\ attempt = 1
    /\ driver = "Chrome"
    /\ live = 1

====
